---- MODULE Spec2Model ----
(***************************************************************************)
(* A model of src/app.py: the YouTube summarizer's helper functions        *)
(* (extract_video_id, get_video_transcript, chunk_text_by_sentences,       *)
(* summarize_text_chunks) and its "Generate Summary" button handler.       *)
(*                                                                         *)
(* A Python string is a sequence of tokens.  A token is one character,     *)
(* except for the few multi-character tokens listed in CharLen, which      *)
(* stand for a fixed run of non-whitespace characters (a word, a URL       *)
(* literal) and count with the length of that run.                         *)
(***************************************************************************)
EXTENDS Integers, Sequences, FiniteSets, TLC

VARIABLES
    \* ---- the Streamlit application (Spec) ----
    summarizer_pipeline,        \* TRUE: the model was loaded; FALSE: None
    transcript,                 \* st.session_state.transcript
    summary,                    \* st.session_state.summary
    video_title_for_download,   \* st.session_state.video_title_for_download
    pc,                         \* "idle" | "summarizing"
    chunks,                     \* summarize_text_chunks: chunks
    i,                          \* summarize_text_chunks: chunks consumed by the loop
    all_summaries,              \* summarize_text_chunks: all_summaries
    progress,                   \* numerator of the last progress_bar.progress call
    ui,                         \* st.* messages of the current script run
    calls,                      \* collaborators invoked by the current request
    attempts,                   \* per-chunk record of the summarizer calls
    fetched,                    \* how the transcript fetch of this request ended
    summary_result,             \* handler: what summarize_text_chunks returned
    request,                    \* history: the URL of the latest click
    transcript_video,           \* history: video the stored transcript was fetched for
    summary_source,             \* history: text the stored summary was computed from
    \* ---- chunk_text_by_sentences alone (SpecChunk) ----
    text, max_chars_per_chunk, chunked,
    \* ---- the summary length bounds alone (SpecLen) ----
    num_words_in_chunk, passed,
    \* ---- extract_video_id alone (SpecUrl) ----
    youtube_url, video_id,
    \* ---- SpecChunk, SpecLen, SpecUrl: the function under study has returned ----
    returned

flowVars == <<summarizer_pipeline, transcript, summary, video_title_for_download,
              pc, chunks, i, all_summaries, progress, ui, calls, attempts,
              fetched, summary_result, request, transcript_video, summary_source>>
chunkVars == <<text, max_chars_per_chunk, chunked>>
lenVars == <<num_words_in_chunk, passed>>
urlVars == <<youtube_url, video_id>>
vars == <<flowVars, chunkVars, lenVars, urlVars, returned>>

(***************************************************************************)
(* Bounds of the model.                                                    *)
(***************************************************************************)
MaxTextLen == 5       \* SpecChunk: longest text, in characters
MaxCap == 5           \* SpecChunk: largest max_chars_per_chunk
MaxWords == 1500      \* SpecLen: largest word count of a chunk
MaxExtra == 1         \* SpecUrl: identifier runs of up to IdLen + MaxExtra characters
MaxSentences == 3     \* Spec: long sentences in a caption track
LongWordLen == 1400   \* Spec: characters of the word the token "W" stands for

(***************************************************************************)
(* Python None, as a string no token sequence of the model equals.         *)
(***************************************************************************)
None == <<"<None>">>

Max(a, b) == IF a >= b THEN a ELSE b
Min(a, b) == IF a <= b THEN a ELSE b

(***************************************************************************)
(* Strings.                                                                *)
(***************************************************************************)
SP == " "
NL == "\n"

\* str.strip() and the regex class \s: the whitespace characters of the model
IsSpace(c) == c \in {SP, NL}

\* len() of one token
CharLen(c) ==
    CASE c = "W" -> LongWordLen
      [] c = "Error" -> 5
      [] c = "fetching" -> 8
      [] c = "transcript" -> 10
      [] OTHER -> 1

\* len(s)
RECURSIVE StrLen(_)
StrLen(s) == IF s = <<>> THEN 0 ELSE CharLen(Head(s)) + StrLen(Tail(s))

\* s.lstrip()
RECURSIVE LStrip(_)
LStrip(s) ==
    IF s = <<>> THEN <<>>
    ELSE IF IsSpace(Head(s)) THEN LStrip(Tail(s)) ELSE s

\* s.rstrip()
RECURSIVE RStrip(_)
RStrip(s) ==
    IF s = <<>> THEN <<>>
    ELSE IF IsSpace(s[Len(s)]) THEN RStrip(SubSeq(s, 1, Len(s) - 1)) ELSE s

\* s.strip()
Strip(s) == RStrip(LStrip(s))

\* text.replace('\n', ' ')
ReplaceNewlines(s) == [k \in 1..Len(s) |-> IF s[k] = NL THEN SP ELSE s[k]]

\* " ".join(parts)
RECURSIVE JoinSpace(_)
JoinSpace(parts) ==
    IF parts = <<>> THEN <<>>
    ELSE IF Len(parts) = 1 THEN parts[1]
    ELSE parts[1] \o <<SP>> \o JoinSpace(Tail(parts))

\* s.startswith(prefix)
StartsWith(s, prefix) ==
    /\ Len(s) >= Len(prefix)
    /\ SubSeq(s, 1, Len(prefix)) = prefix

\* len(chunk.split()): the maximal runs of non-whitespace
RECURSIVE CountWords(_, _)
CountWords(s, inWord) ==
    IF s = <<>> THEN 0
    ELSE IF IsSpace(Head(s)) THEN CountWords(Tail(s), FALSE)
    ELSE (IF inWord THEN 0 ELSE 1) + CountWords(Tail(s), TRUE)

(***************************************************************************)
(* chunk_text_by_sentences                                                  *)
(***************************************************************************)
\* the characters of the lookbehind class [.!?]
Terminators == {".", "!", "?"}

\* first index >= k of s that holds no whitespace (Len(s) + 1 when none)
RECURSIVE SkipSpaces(_, _)
SkipSpaces(s, k) ==
    IF k <= Len(s) /\ IsSpace(s[k]) THEN SkipSpaces(s, k + 1) ELSE k

\* re.split(r'(?<=[.!?])\s+', s): cut out every whitespace run that follows a
\* terminator; k scans s, cur is the piece being collected, acc the pieces so far
RECURSIVE SplitFrom(_, _, _, _)
SplitFrom(s, k, cur, acc) ==
    IF k > Len(s) THEN Append(acc, cur)
    ELSE IF IsSpace(s[k]) /\ k > 1 /\ s[k - 1] \in Terminators
         THEN SplitFrom(s, SkipSpaces(s, k), <<>>, Append(acc, cur))
         ELSE SplitFrom(s, k + 1, Append(cur, s[k]), acc)

\* sentences = re.split(..., text.replace('\n', ' '))
SplitSentences(s) == SplitFrom(ReplaceNewlines(s), 1, <<>>, <<>>)

\* ChunkStep with the joining space left out of the length test
ChunkStepNoJoinSpace(st, raw, cap) ==
    LET sentence == Strip(raw) IN
    IF sentence = <<>> THEN st
    ELSE IF StrLen(st.current_chunk) + StrLen(sentence) > cap
            /\ st.current_chunk # <<>>
         THEN [chunks |-> Append(st.chunks, st.current_chunk),
               current_chunk |-> sentence]
         ELSE IF st.current_chunk # <<>>
              THEN [st EXCEPT !.current_chunk = @ \o <<SP>> \o sentence]
              ELSE [st EXCEPT !.current_chunk = sentence]

\* one pass of the for loop over sentences; st = [chunks, current_chunk]
ChunkStep(st, raw, cap) ==
    LET sentence == Strip(raw) IN
    IF sentence = <<>> THEN st
    ELSE IF StrLen(st.current_chunk) + StrLen(sentence) + 1 > cap
            /\ st.current_chunk # <<>>
         THEN [chunks |-> Append(st.chunks, st.current_chunk),
               current_chunk |-> sentence]
         ELSE IF st.current_chunk # <<>>
              THEN [st EXCEPT !.current_chunk = @ \o <<SP>> \o sentence]
              ELSE [st EXCEPT !.current_chunk = sentence]

\* the for loop over sentences
RECURSIVE ChunkLoop(_, _, _)
ChunkLoop(sentences, st, cap) ==
    IF sentences = <<>> THEN st
    ELSE ChunkLoop(Tail(sentences), ChunkStep(st, Head(sentences), cap), cap)

\* ChunkFinish without the append of the last remaining chunk
ChunkFinishNoFlush(st, t) ==
    IF st.chunks = <<>> /\ Strip(t) # <<>> THEN Append(st.chunks, t) ELSE st.chunks

\* what follows the loop: the last chunk, and the fallback for an empty result
ChunkFinish(st, t) ==
    LET flushed == IF st.current_chunk # <<>>
                   THEN Append(st.chunks, st.current_chunk)
                   ELSE st.chunks
    IN IF flushed = <<>> /\ Strip(t) # <<>> THEN Append(flushed, t) ELSE flushed

chunk_text_by_sentences(t, cap) ==
    ChunkFinish(ChunkLoop(SplitSentences(t),
                          [chunks |-> <<>>, current_chunk |-> <<>>], cap), t)

(***************************************************************************)
(* summarize_text_chunks: the length bounds of one summarizer call         *)
(***************************************************************************)
MinLenFloor == 15     \* min_len = max(15, ...)
MaxLenFloor == 40     \* max_len = max(40, ...)
MaxLenCap == 140      \* max_len = min(max_len, 140)
MinLenLowest == 10    \* min_len = max(10, ...)
MinMaxGap == 20       \* ... max_len - 20

\* int(num_words_in_chunk * 0.1) and int(num_words_in_chunk * 0.4): the float
\* product truncated; it equals the integer quotient for every word count
TruncTenths(w, tenths) == (w * tenths) \div 10

\* LengthBounds without the repair of min_len >= max_len
LengthBoundsNoRepair(w) ==
    [min_length |-> Max(MinLenFloor, TruncTenths(w, 1)),
     max_length |-> Min(Max(MaxLenFloor, TruncTenths(w, 4)), MaxLenCap)]

\* min_len and max_len as passed to summarizer_pipeline for a chunk of w words
LengthBounds(w) ==
    LET min_len == Max(MinLenFloor, TruncTenths(w, 1))
        max_len == Min(Max(MaxLenFloor, TruncTenths(w, 4)), MaxLenCap)
    IN [min_length |-> IF min_len >= max_len
                       THEN Max(MinLenLowest, max_len - MinMaxGap)
                       ELSE min_len,
        max_length |-> max_len]

(***************************************************************************)
(* extract_video_id.  A URL is a sequence of tokens: the literal pieces    *)
(* the patterns are made of, identifier characters, and other characters.  *)
(***************************************************************************)
IdLen == 11                       \* {11}
IdChars == {"A", "B"}             \* stand for the class [a-zA-Z0-9_-]
Schemes == {"https://", "http://"}     \* https?:\/\/
WatchLit == "youtube.com/watch?v="
ShortLit == "youtu.be/"
EmbedLit == "youtube.com/embed/"
VLit == "youtube.com/v/"

\* the five patterns, in the order of the list: whether (?:www\.)? is part of
\* the pattern, and the literal tokens that precede the captured group
patterns ==
    << [www |-> TRUE, literal |-> <<WatchLit>>],
       [www |-> TRUE, literal |-> <<ShortLit>>],
       [www |-> TRUE, literal |-> <<EmbedLit>>],
       [www |-> TRUE, literal |-> <<VLit>>],
       [www |-> FALSE, literal |-> <<"m.", WatchLit>>] >>

\* the literal of pat, then IdLen identifier characters, from index q of url:
\* the captured group, or None
GroupAt(pat, url, q) ==
    LET n == Len(pat.literal) IN
    IF /\ q + n + IdLen - 1 <= Len(url)
       /\ SubSeq(url, q, q + n - 1) = pat.literal
       /\ \A k \in (q + n)..(q + n + IdLen - 1) : url[k] \in IdChars
    THEN SubSeq(url, q + n, q + n + IdLen - 1)
    ELSE None

\* a match of pat that starts at index p: the optional scheme and the
\* optional www. are taken when present and given back when the rest fails
MatchAt(pat, url, p) ==
    LET a == IF p <= Len(url) /\ url[p] \in Schemes THEN 1 ELSE 0
        wwwAt(q) == IF pat.www /\ q <= Len(url) /\ url[q] = "www." THEN 1 ELSE 0
        tries == << p + a + wwwAt(p + a), p + a, p + wwwAt(p), p >>
        hits == {k \in 1..4 : GroupAt(pat, url, tries[k]) # None}
    IN IF hits = {} THEN None
       ELSE GroupAt(pat, url, tries[CHOOSE k \in hits : \A m \in hits : k <= m])

\* re.search(pattern, youtube_url): the match with the leftmost start
Search(pat, url) ==
    LET starts == {p \in 1..Len(url) : MatchAt(pat, url, p) # None} IN
    IF starts = {} THEN None
    ELSE MatchAt(pat, url, CHOOSE p \in starts : \A q \in starts : p <= q)

\* for pattern in patterns: ... return match.group(1); return None
RECURSIVE TryPatterns(_, _)
TryPatterns(url, k) ==
    IF k > Len(patterns) THEN None
    ELSE IF Search(patterns[k], url) # None THEN Search(patterns[k], url)
    ELSE TryPatterns(url, k + 1)

extract_video_id(url) == TryPatterns(url, 1)

(***************************************************************************)
(* get_video_transcript.  outcome is what YouTubeTranscriptApi does:       *)
(* [kind |-> "ok", items |-> the texts of the transcript items], or an     *)
(* exception: kind "disabled" (TranscriptsDisabled), "notfound"            *)
(* (NoTranscriptFound), "other" (any other Exception, items = str(e)).     *)
(***************************************************************************)
ErrorPrefix == <<"Error", ":">>        \* "Error:"
MsgDisabled == <<"Error", ":", SP, "Transcripts are disabled for this video.">>
MsgNotFound == <<"Error", ":", SP, "No transcript found for this video.">>
MsgFetching(e) == <<"Error", SP, "fetching", SP, "transcript", ":", SP>> \o e
MsgEmptyInput == <<"Error", ":", SP, "Input text is empty.">>
MsgNoChunks == <<"Error", ":", SP, "Could not split text into processable chunks.">>
MsgNoSummary == <<"Could", SP, "not", SP, "generate", SP, "a", SP, "summary.">>

\* get_video_transcript with the TranscriptsDisabled message lacking "Error:"
get_video_transcript_plain_disabled(outcome) ==
    CASE outcome.kind = "ok" -> JoinSpace(outcome.items)
      [] outcome.kind = "disabled" -> <<"Transcripts are disabled for this video.">>
      [] outcome.kind = "notfound" -> MsgNotFound
      [] OTHER -> MsgFetching(outcome.items)

get_video_transcript(outcome) ==
    CASE outcome.kind = "ok" -> JoinSpace(outcome.items)
      [] outcome.kind = "disabled" -> MsgDisabled
      [] outcome.kind = "notfound" -> MsgNotFound
      [] OTHER -> MsgFetching(outcome.items)

(***************************************************************************)
(* summarize_text_chunks and the Generate Summary handler                  *)
(***************************************************************************)
ChunkCap == 2800      \* max_chars_per_chunk=2800

\* an except clause naming one exception class only
CatchesValueErrorOnly(out) == out.exc = "ValueError"

\* except Exception as e: every exception the summarizer raises is caught
Catches(out) == TRUE

\* the try body with a placeholder appended for a failed chunk
TryChunkWithPlaceholder(all, out) ==
    IF out.kind = "ok" THEN Append(all, out.text) ELSE Append(all, <<"[", "]">>)

\* all_summaries after the try/except of one chunk: out is what the
\* summarizer did, [kind |-> "ok", text] or [kind |-> "raise", exc]
TryChunk(all, out) ==
    IF out.kind = "ok" THEN Append(all, out.text) ELSE all

\* the tail of summarize_text_chunks: what it returns
FinalSummary(all, text_to_summarize) ==
    LET final_summary == JoinSpace(all) IN
    IF Strip(final_summary) = <<>> /\ Strip(text_to_summarize) # <<>>
    THEN MsgNoSummary
    ELSE final_summary

\* the error branches with only the transcript reset
ClearedTranscriptOnly(sess) == [sess EXCEPT !.transcript = <<>>]

\* st.session_state.transcript = ""; st.session_state.summary = ""
Cleared(sess) == [sess EXCEPT !.transcript = <<>>, !.summary = <<>>]

(***************************************************************************)
(* States of the parts a specification does not exercise.                  *)
(***************************************************************************)
FlowUnused ==
    /\ summarizer_pipeline = FALSE
    /\ transcript = <<>>
    /\ summary = <<>>
    /\ video_title_for_download = <<"video">>
    /\ pc = "idle"
    /\ chunks = <<>>
    /\ i = 0
    /\ all_summaries = <<>>
    /\ progress = 0
    /\ ui = <<>>
    /\ calls = <<>>
    /\ attempts = <<>>
    /\ fetched = [kind |-> "none", text |-> <<>>]
    /\ summary_result = None
    /\ request = <<>>
    /\ transcript_video = None
    /\ summary_source = None
ChunkUnused == text = <<>> /\ max_chars_per_chunk = 1 /\ chunked = <<>>
LenUnused == num_words_in_chunk = 0 /\ passed = [min_length |-> 0, max_length |-> 0]
UrlUnused == youtube_url = <<>> /\ video_id = None

(***************************************************************************)
(* Spec: the application.  Each click of "Generate Summary" reruns the     *)
(* script; the summarizer loop then runs one chunk per step.               *)
(***************************************************************************)
Video1 == [k \in 1..IdLen |-> "A"]
Video2 == [k \in 1..IdLen |-> "B"]
\* what the user may type: nothing, no YouTube URL, a watch URL, a short link
FlowUrls ==
    { <<>>,
      <<"vimeo.com/">> \o Video1,
      <<"https://", "www.", WatchLit>> \o Video1,
      <<"https://", ShortLit>> \o Video2 }

\* transcript items: a long sentence (one chunk each), a short sentence
LongSentence == <<"W", ".">>
ShortSentence == <<"a", ".">>
CaptionTracks ==
    { <<>>, << <<SP>> >>, <<ShortSentence, ShortSentence>>,
      << <<"Error", ":", SP, "a", ".">> >> }
    \cup {[k \in 1..n |-> LongSentence] : n \in 1..MaxSentences}
FetchOutcomes ==
    {[kind |-> "ok", items |-> t] : t \in CaptionTracks}
    \cup {[kind |-> k, items |-> <<>>] : k \in {"disabled", "notfound"}}
    \cup {[kind |-> "other", items |-> <<"x">>]}

\* what one call of summarizer_pipeline may do
SummaryTexts == {<<"s">>, <<"t">>}
SummarizerOutcomes ==
    {[kind |-> "ok", text |-> t, exc |-> "none"] : t \in SummaryTexts}
    \cup {[kind |-> "raise", text |-> <<>>, exc |-> "IndexError"]}

Init ==
    /\ summarizer_pipeline \in BOOLEAN
    /\ transcript = <<>>
    /\ summary = <<>>
    /\ video_title_for_download = <<"video">>
    /\ pc = "idle"
    /\ chunks = <<>>
    /\ i = 0
    /\ all_summaries = <<>>
    /\ progress = 0
    /\ ui = <<>>
    /\ calls = <<>>
    /\ attempts = <<>>
    /\ fetched = [kind |-> "none", text |-> <<>>]
    /\ summary_result = None
    /\ request = <<>>
    /\ transcript_video = None
    /\ summary_source = None
    /\ ChunkUnused /\ LenUnused /\ UrlUnused /\ returned = FALSE

\* The script up to the summarizer loop, as a record of the new values of
\* the variables it may change.
HandlerResult(url, outcome) ==
    LET sess == [transcript |-> transcript, summary |-> summary]
        same == [transcript |-> transcript, summary |-> summary,
                 title |-> video_title_for_download, pc |-> "idle",
                 chunks |-> <<>>, ui |-> <<>>, calls |-> <<>>,
                 fetched |-> [kind |-> "none", text |-> <<>>],
                 summary_result |-> None]
        vid == extract_video_id(url)
        transcript_result == get_video_transcript(outcome)
        got == [same EXCEPT !.title = vid,
                            !.calls = <<"YouTubeTranscriptApi.get_transcript">>,
                            !.fetched = [kind |-> outcome.kind,
                                         text |-> transcript_result]]
        cs == chunk_text_by_sentences(transcript_result, ChunkCap)
    IN
    IF url = <<>> THEN [same EXCEPT !.ui = <<"warning:url">>]
    ELSE IF ~summarizer_pipeline THEN [same EXCEPT !.ui = <<"error:model">>]
    ELSE IF vid = None
    THEN [same EXCEPT !.ui = <<"error:url">>,
                      !.transcript = Cleared(sess).transcript,
                      !.summary = Cleared(sess).summary]
    ELSE IF StartsWith(transcript_result, ErrorPrefix)
    THEN [got EXCEPT !.ui = <<"info:id", "error:transcript">>,
                     !.transcript = Cleared(sess).transcript,
                     !.summary = Cleared(sess).summary]
    ELSE IF transcript_result = <<>> \/ Strip(transcript_result) = <<>>
    THEN [got EXCEPT !.ui = <<"info:id", "success:transcript", "error:summary">>,
                     !.transcript = transcript_result,
                     !.summary = <<>>,
                     !.summary_result = MsgEmptyInput]
    ELSE IF cs = <<>>
    THEN [got EXCEPT !.ui = <<"info:id", "success:transcript", "error:summary">>,
                     !.transcript = transcript_result,
                     !.summary = <<>>,
                     !.summary_result = MsgNoChunks]
    ELSE [got EXCEPT !.ui = <<"info:id", "success:transcript">>,
                     !.transcript = transcript_result,
                     !.pc = "summarizing",
                     !.chunks = cs]

\* A click on the button: the script runs from the top to the loop.
Click(url, outcome) ==
    /\ pc = "idle"
    /\ LET r == HandlerResult(url, outcome) IN
        /\ transcript' = r.transcript
        /\ summary' = r.summary
        /\ video_title_for_download' = r.title
        /\ pc' = r.pc
        /\ chunks' = r.chunks
        /\ ui' = r.ui
        /\ calls' = r.calls
        /\ fetched' = r.fetched
        /\ summary_result' = r.summary_result
        /\ transcript_video' =
              IF r.transcript = <<>> THEN None
              ELSE IF r.fetched.kind = "none" THEN transcript_video
              ELSE r.title
        /\ summary_source' = IF r.summary = <<>> THEN None ELSE summary_source
    /\ request' = url
    /\ i' = 0
    /\ all_summaries' = <<>>
    /\ progress' = 0
    /\ attempts' = <<>>
    /\ UNCHANGED <<summarizer_pipeline, chunkVars, lenVars, urlVars, returned>>

\* One pass of "for i, chunk in enumerate(chunks)".
SummarizeChunk(out) ==
    /\ pc = "summarizing"
    /\ i < Len(chunks)
    /\ LET chunk == chunks[i + 1]
           bounds == LengthBounds(CountWords(chunk, FALSE))
           attempt == [index |-> i + 1, failed |-> out.kind # "ok",
                       text |-> out.text,
                       min_length |-> bounds.min_length,
                       max_length |-> bounds.max_length]
       IN
       IF Strip(chunk) = <<>>
       THEN /\ i' = i + 1
            /\ UNCHANGED <<pc, all_summaries, progress, ui, calls, attempts>>
       ELSE /\ calls' = Append(calls, "summarizer_pipeline")
            /\ attempts' = Append(attempts, attempt)
            /\ IF out.kind = "raise" /\ ~Catches(out)
               THEN /\ pc' = "idle"
                    /\ ui' = Append(ui, "exception")
                    /\ UNCHANGED <<i, all_summaries, progress>>
               ELSE /\ all_summaries' = TryChunk(all_summaries, out)
                    /\ ui' = IF out.kind = "raise"
                             THEN Append(ui, "warning:chunk") ELSE ui
                    /\ progress' = i + 1
                    /\ i' = i + 1
                    /\ pc' = pc
    /\ UNCHANGED <<summarizer_pipeline, transcript, summary,
                   video_title_for_download, chunks, fetched, summary_result,
                   request, transcript_video, summary_source,
                   chunkVars, lenVars, urlVars, returned>>

\* The loop is over: summarize_text_chunks returns and the handler stores or
\* rejects the result.
ReturnSummary ==
    /\ pc = "summarizing"
    /\ i = Len(chunks)
    /\ LET result == FinalSummary(all_summaries, transcript) IN
        /\ summary_result' = result
        /\ IF StartsWith(result, ErrorPrefix)
           THEN /\ summary' = <<>>
                /\ summary_source' = None
                /\ ui' = Append(ui, "error:summary")
           ELSE /\ summary' = result
                /\ summary_source' = IF result = <<>> THEN None ELSE transcript
                /\ ui' = Append(ui, "success:summary")
    /\ pc' = "idle"
    /\ UNCHANGED <<summarizer_pipeline, transcript, video_title_for_download,
                   chunks, i, all_summaries, progress, calls, attempts, fetched,
                   request, transcript_video, chunkVars, lenVars, urlVars,
                   returned>>

Next ==
    \/ \E url \in FlowUrls, outcome \in FetchOutcomes : Click(url, outcome)
    \/ \E out \in SummarizerOutcomes : SummarizeChunk(out)
    \/ ReturnSummary

Spec == Init /\ [][Next]_vars

(***************************************************************************)
(* Claims about the application.                                           *)
(***************************************************************************)
\* a run of summarize_text_chunks that reached its loop is over
LoopRunOver == pc = "idle" /\ chunks # <<>>

\* the texts of the attempts that did not fail, in the order of the attempts
RECURSIVE SucceededTexts(_)
SucceededTexts(att) ==
    IF att = <<>> THEN <<>>
    ELSE (IF Head(att).failed THEN <<>> ELSE <<Head(att).text>>)
         \o SucceededTexts(Tail(att))

\* the texts one after the other, a single space between two neighbours
RECURSIVE SpaceSeparated(_)
SpaceSeparated(texts) ==
    IF texts = <<>> THEN <<>>
    ELSE LET n == Len(texts)
             before == SpaceSeparated(SubSeq(texts, 1, n - 1))
         IN IF n = 1 THEN texts[1] ELSE before \o <<SP>> \o texts[n]

\* C1: the summarizer is invoked once per chunk, in increasing index order,
\* one chunk after the other; a failed chunk neither stops the later chunks
\* from being attempted nor lets an exception leave summarize_text_chunks.
C1_EveryChunkAttemptedInOrder ==
    /\ \A k \in 1..Len(attempts) : attempts[k].index = k
    /\ pc = "summarizing" => Len(attempts) = i /\ i <= Len(chunks)
    /\ LoopRunOver =>
          /\ Len(attempts) = Len(chunks)
          /\ summary_result # None
          /\ \A k \in 1..Len(ui) : ui[k] # "exception"

\* C1 witness: three chunks, the first and the last of which failed, with the
\* second summarized between them.
C1_Witness ==
    /\ LoopRunOver
    /\ Len(chunks) = 3
    /\ attempts[1].failed /\ ~attempts[2].failed /\ attempts[3].failed

\* C2: when a chunk was summarized, summarize_text_chunks returns the
\* summaries of the chunks that succeeded, in chunk order, joined by single
\* spaces, and nothing for a failed chunk.
C2_FinalTextJoinsSuccesses ==
    (LoopRunOver /\ \E k \in 1..Len(attempts) : ~attempts[k].failed) =>
        summary_result = SpaceSeparated(SucceededTexts(attempts))

\* C2 witness: of three chunks the middle one failed, and the result is the
\* first summary, a space, the third summary.
C2_Witness ==
    /\ LoopRunOver
    /\ Len(chunks) = 3
    /\ ~attempts[1].failed /\ attempts[2].failed /\ ~attempts[3].failed
    /\ attempts[1].text # attempts[3].text
    /\ summary_result = attempts[1].text \o <<SP>> \o attempts[3].text

\* C3: when the summarizer failed on every chunk, the handler treats the
\* result as an error: no summary is stored and no success is announced.
C3_AllFailedIsAnError ==
    (LoopRunOver /\ \A k \in 1..Len(attempts) : attempts[k].failed) =>
        /\ summary = <<>>
        /\ \A k \in 1..Len(ui) : ui[k] # "success:summary"
        /\ summary_result # MsgEmptyInput

\* C4: after a transcript fetch that failed, for whatever cause, nothing is
\* stored, and the summarizer is not invoked.
C4_FetchFailureIsAnError ==
    fetched.kind \in {"disabled", "notfound", "other"} =>
        /\ transcript = <<>>
        /\ summary = <<>>
        /\ attempts = <<>>
        /\ pc = "idle"
        /\ ui[Len(ui)] = "error:transcript"

ChunkAlphabet == {"a", ".", "?", SP, NL}
ChunkTexts == UNION {[1..n -> ChunkAlphabet] : n \in 0..MaxTextLen}

InitChunk ==
    /\ text \in ChunkTexts
    /\ max_chars_per_chunk \in 1..MaxCap
    /\ chunked = <<>>
    /\ returned = FALSE
    /\ FlowUnused /\ LenUnused /\ UrlUnused

CallChunk ==
    /\ ~returned
    /\ chunked' = chunk_text_by_sentences(text, max_chars_per_chunk)
    /\ returned' = TRUE
    /\ UNCHANGED <<text, max_chars_per_chunk, flowVars, lenVars, urlVars>>

NextChunk == CallChunk
SpecChunk == InitChunk /\ [][NextChunk]_vars

(***************************************************************************)
(* The sentences of a text, stated without the scan of SplitFrom: a        *)
(* separator is a whitespace character that a terminator precedes with     *)
(* nothing but whitespace in between; a sentence is a maximal run of       *)
(* characters that are no separators, trimmed, when any character is left. *)
(***************************************************************************)
NewlinesAsSpaces(s) == [k \in 1..Len(s) |-> IF s[k] = NL THEN SP ELSE s[k]]
IsSeparator(s, k) ==
    /\ IsSpace(s[k])
    /\ \E j \in 1..(k - 1) :
          s[j] \in Terminators /\ \A m \in (j + 1)..k : IsSpace(s[m])
PieceEnd(s, a) ==
    CHOOSE b \in a..Len(s) :
        /\ \A m \in a..b : ~IsSeparator(s, m)
        /\ b = Len(s) \/ IsSeparator(s, b + 1)
Trimmed(s) ==
    LET keep == {k \in 1..Len(s) : ~IsSpace(s[k])} IN
    IF keep = {} THEN <<>>
    ELSE LET lo == CHOOSE k \in keep : \A m \in keep : k <= m
             hi == CHOOSE k \in keep : \A m \in keep : k >= m
         IN SubSeq(s, lo, hi)
RECURSIVE SentencesFrom(_, _)
SentencesFrom(s, a) ==
    IF a > Len(s) THEN <<>>
    ELSE IF IsSeparator(s, a) THEN SentencesFrom(s, a + 1)
    ELSE LET b == PieceEnd(s, a)
             t == Trimmed(SubSeq(s, a, b))
         IN (IF t = <<>> THEN <<>> ELSE <<t>>) \o SentencesFrom(s, b + 1)
Sentences(s) == SentencesFrom(NewlinesAsSpaces(s), 1)

\* a trimmed text that holds no sentence boundary
IsOneSentence(c) ==
    \A k \in 1..(Len(c) - 1) : ~(c[k] \in Terminators /\ IsSpace(c[k + 1]))

\* C6: every chunk is at most max_chars_per_chunk long, except a chunk that is
\* one single sentence longer than the cap; and every such over-long sentence
\* is a chunk by itself.
C6_ChunkLengthBound ==
    returned =>
        /\ \A j \in 1..Len(chunked) :
              \/ StrLen(chunked[j]) <= max_chars_per_chunk
              \/ /\ IsOneSentence(chunked[j])
                 /\ \E k \in 1..Len(Sentences(text)) : chunked[j] = Sentences(text)[k]
        /\ Cardinality({m \in 1..Len(Sentences(text)) :
                          StrLen(Sentences(text)[m]) > max_chars_per_chunk})
           = Cardinality({j \in 1..Len(chunked) :
                          StrLen(chunked[j]) > max_chars_per_chunk})

\* C6 witness: an over-long sentence sits alone in its chunk, after a chunk
\* that fills the cap exactly.
C6_Witness ==
    /\ returned
    /\ Len(chunked) = 2
    /\ StrLen(chunked[1]) = max_chars_per_chunk
    /\ StrLen(chunked[2]) > max_chars_per_chunk

\* C7: the chunks joined by single spaces are the text's non-empty trimmed
\* sentences, in order, joined by single spaces; a blank text gives no chunk.
C7_ChunksPreserveSentences ==
    returned =>
        /\ JoinSpace(chunked) = JoinSpace(Sentences(text))
        /\ (\A k \in 1..Len(text) : IsSpace(text[k])) => chunked = <<>>
        /\ \A j \in 1..Len(chunked) : chunked[j] # <<>>

\* C7 witness: a text of three sentences cut into two chunks, the first of
\* which holds two sentences.
C7_Witness ==
    /\ returned
    /\ Len(Sentences(text)) = 3
    /\ Len(chunked) = 2
    /\ ~IsOneSentence(chunked[1])

(***************************************************************************)
(* SpecLen: the length bounds for every word count in 1..MaxWords.         *)
(***************************************************************************)
InitLen ==
    /\ num_words_in_chunk \in 1..MaxWords
    /\ passed = [min_length |-> 0, max_length |-> 0]
    /\ returned = FALSE
    /\ FlowUnused /\ ChunkUnused /\ UrlUnused

CallBounds ==
    /\ ~returned
    /\ passed' = LengthBounds(num_words_in_chunk)
    /\ returned' = TRUE
    /\ UNCHANGED <<num_words_in_chunk, flowVars, chunkVars, urlVars>>

NextLen == CallBounds
SpecLen == InitLen /\ [][NextLen]_vars

\* m is the larger (smaller) of a and b
IsMaxOf(m, a, b) == m \in {a, b} /\ m >= a /\ m >= b
IsMinOf(m, a, b) == m \in {a, b} /\ m <= a /\ m <= b
\* f is num/10 rounded down; r is num/10 rounded to a nearest integer
IsFloorOfTenths(f, num) == 10 * f <= num /\ num < 10 * (f + 1)
IsRoundOfTenths(r, num) == 20 * r - 10 <= 2 * num /\ 2 * num <= 20 * r + 10

\* the bounds the claim derives from the two fractions of the word count
BoundsFrom(tenthMin, tenthMax, b) ==
    \E mx0 \in {40, tenthMax}, mn0 \in {15, tenthMin} :
        /\ IsMaxOf(mx0, 40, tenthMax)
        /\ IsMinOf(b.max_length, mx0, 140)
        /\ IsMaxOf(mn0, 15, tenthMin)
        /\ IF mn0 >= b.max_length
           THEN IsMaxOf(b.min_length, 10, b.max_length - 20)
           ELSE b.min_length = mn0

\* C8 as written: the bounds come from round(0.10 * w) and round(0.40 * w).
C8_RoundedBounds ==
    returned =>
        \E rmin \in 0..num_words_in_chunk :
            /\ IsRoundOfTenths(rmin, num_words_in_chunk)
            /\ \E rmax \in 0..num_words_in_chunk :
                  /\ IsRoundOfTenths(rmax, 4 * num_words_in_chunk)
                  /\ BoundsFrom(rmin, rmax, passed)

\* C8 amended: the bounds come from 0.10 * w and 0.40 * w rounded down, with
\* the cap of 140 and the repair of min >= max, so 10 <= min < max <= 140.
C8_TruncatedBounds ==
    returned =>
        /\ \E fmin \in 0..num_words_in_chunk :
              /\ IsFloorOfTenths(fmin, num_words_in_chunk)
              /\ \E fmax \in 0..num_words_in_chunk :
                    /\ IsFloorOfTenths(fmax, 4 * num_words_in_chunk)
                    /\ BoundsFrom(fmin, fmax, passed)
        /\ 10 <= passed.min_length
        /\ passed.min_length < passed.max_length
        /\ passed.max_length <= 140

\* C8 witness: a chunk of so many words that a tenth of them reaches the cap
\* of max_len, and min_len was lowered below it.
C8_Witness ==
    /\ returned
    /\ num_words_in_chunk \div 10 >= 140
    /\ passed = [min_length |-> 120, max_length |-> 140]

(***************************************************************************)
(* SpecUrl: extract_video_id on URLs put together from an optional scheme, *)
(* an optional subdomain, an optional foreign prefix of the host, a host   *)
(* and path, a run of 0..IdLen+MaxExtra identifier characters, and a tail. *)
(***************************************************************************)
Opt(S) == {<<>>} \cup {<<x>> : x \in S}
\* runs of n identifier characters: all "A", or "A" with one "B"
IdRuns(n) == {[k \in 1..n |-> IF k = b THEN "B" ELSE "A"] : b \in 0..n}
SecondUrl == <<"&", WatchLit>> \o [k \in 1..IdLen |-> "B"]
UrlSpace ==
    { scheme \o sub \o junk \o <<host>> \o run \o tail :
        scheme \in Opt(Schemes),
        sub \in Opt({"www."}),
        junk \in Opt({"not"}),
        host \in {WatchLit, ShortLit, EmbedLit, VLit, "vimeo.com/"},
        run \in UNION {IdRuns(n) : n \in 0..(IdLen + MaxExtra)},
        tail \in {<<>>, <<"&">>, SecondUrl} }
    \cup
    { scheme \o <<"m.", WatchLit>> \o run \o tail :
        scheme \in Opt(Schemes),
        run \in UNION {IdRuns(n) : n \in 0..(IdLen + MaxExtra)},
        tail \in {<<>>, <<"&">>} }

InitUrl ==
    /\ youtube_url \in UrlSpace
    /\ video_id = None
    /\ returned = FALSE
    /\ FlowUnused /\ ChunkUnused /\ LenUnused

CallExtract ==
    /\ ~returned
    /\ video_id' = extract_video_id(youtube_url)
    /\ returned' = TRUE
    /\ UNCHANGED <<youtube_url, flowVars, chunkVars, lenVars>>

NextUrl == CallExtract
SpecUrl == InitUrl /\ [][NextUrl]_vars

\* url is a URL of a supported shape that embeds the identifier id: an
\* optional scheme, then www. or nothing before any of the four paths, or m.
\* before the watch path, then exactly IdLen identifier characters
HasShape(url, id) ==
    \E scheme \in Opt(Schemes), sub \in Opt({"www.", "m."}),
       host \in {WatchLit, ShortLit, EmbedLit, VLit} :
        LET head == scheme \o sub \o <<host>>
            n == Len(head)
        IN /\ sub = <<"m.">> => host = WatchLit
           /\ Len(url) >= n + IdLen
           /\ SubSeq(url, 1, n) = head
           /\ SubSeq(url, n + 1, n + IdLen) = id
           /\ \A k \in 1..IdLen : id[k] \in IdChars
           /\ Len(url) > n + IdLen => url[n + IdLen + 1] \notin IdChars

\* C9 as written: a URL of a supported shape gives exactly its embedded
\* identifier, and every other string gives None.
C9_ExactIdOrNone ==
    returned =>
        IF \E id \in UNION {IdRuns(IdLen)} : HasShape(youtube_url, id)
        THEN HasShape(youtube_url, video_id)
        ELSE video_id = None

====
